---- MODULE Spec2Model ----
(***************************************************************************)
(* Model of gps.py: the NMEA sentence framer (Data.new_location), the      *)
(* parser/dispatcher (Data.__update, Location.set) and the recency-merging *)
(* aggregator (the Location.__set_ methods).                               *)
(*                                                                         *)
(* Byte strings and text strings are sequences of one-character strings.   *)
(* A float is a fixed-point integer in thousandths (545.4 is 545400); a    *)
(* Position value is in units of 1/60000 degree, so that                   *)
(* float(deg) + float(min) / 60 is exact: 48 deg 7.038 min is 2887038.     *)
(* A time tuple (hour, minute, second) is <<h, m, s in thousandths>>.      *)
(* An exception is the field exc of an outcome record; "None" means the    *)
(* call returned.                                                          *)
(***************************************************************************)
EXTENDS Integers, Sequences, FiniteSets, TLC

VARIABLES
    heap,        \* the Location objects constructed so far, by object id
    self_data,   \* Data.__data: id of the current Location, 0 = attribute never assigned
    last_update, \* Data.__last_update
    now,         \* the value time.time() returns
    pc,          \* position inside new_location: "idle" (not running) or "loop"
    data,        \* the local list `data` of new_location: the open sentence buffer
    ret,         \* outcome of the last new_location call: "none", "True", "False", "raised"
    ttw,         \* the ttw argument of the last new_location call
    com_calls,   \* any()/readline() calls made on the UART by the last new_location call
    last_poll,   \* time.time() when the last decode cycle started, -1 before the first
    got,         \* outcome of the last get_location call: 0 none yet, -1 raised, else object id
    call,        \* index in Sentences of the sentence last handed to Location.set directly
    exc,         \* exception raised by the last Location.set / new_location, "None" if it returned
    lines_read,  \* the lines readline() returned in the last decode cycle, in order
    flushed      \* the non-empty buffers the last decode cycle handed to __update, in order

vars == <<heap, self_data, last_update, now, pc, data, ret, ttw, com_calls, last_poll, got, call, exc,
          lines_read, flushed>>

----
\* Bounds of the model

MaxTime == 2
MaxLocs == 2
MaxLines == 3

----
\* Python string primitives

Min(a, b) == IF a < b THEN a ELSE b
Max(a, b) == IF a > b THEN a ELSE b

Digits == {"0", "1", "2", "3", "4", "5", "6", "7", "8", "9"}

DigitVal(c) ==
    CASE c = "0" -> 0 [] c = "1" -> 1 [] c = "2" -> 2 [] c = "3" -> 3 [] c = "4" -> 4
      [] c = "5" -> 5 [] c = "6" -> 6 [] c = "7" -> 7 [] c = "8" -> 8 [] c = "9" -> 9

\* s[a:b] with Python's clamping of indices; a negative index counts from the end
PyIndex(s, i) == IF i < 0 THEN Max(Len(s) + i, 0) ELSE Min(i, Len(s))
PySlice(s, a, b) == SubSeq(s, PyIndex(s, a) + 1, PyIndex(s, b))
\* s[a:]
PySliceFrom(s, a) == SubSeq(s, PyIndex(s, a) + 1, Len(s))

\* c in s, for a one-character c
Contains(s, c) == \E i \in 1..Len(s) : s[i] = c

RECURSIVE DigitsVal(_)
DigitsVal(s) ==
    IF s = <<>> THEN 0
    ELSE DigitsVal(SubSeq(s, 1, Len(s) - 1)) * 10 + DigitVal(s[Len(s)])

\* int(s) succeeds: a non-empty run of decimal digits
IsInt(s) == Len(s) > 0 /\ \A i \in 1..Len(s) : s[i] \in Digits
IntVal(s) == DigitsVal(s)

\* float(s) succeeds: digits with at most one decimal point and at least one digit
IsFloat(s) ==
    /\ \A i \in 1..Len(s) : s[i] \in Digits \cup {"."}
    /\ \E i \in 1..Len(s) : s[i] \in Digits
    /\ Cardinality({i \in 1..Len(s) : s[i] = "."}) <= 1

DotPos(s) == IF Contains(s, ".") THEN CHOOSE i \in 1..Len(s) : s[i] = "." ELSE Len(s) + 1

\* float(s) in thousandths
FloatVal(s) ==
    LET p == DotPos(s)
        frac == SubSeq(s, p + 1, Len(s)) \o <<"0", "0", "0">>
    IN DigitsVal(SubSeq(s, 1, p - 1)) * 1000 + DigitsVal(SubSeq(frac, 1, 3))

\* s.split(",")
RECURSIVE Split(_)
Split(s) ==
    IF ~Contains(s, ",") THEN <<s>>
    ELSE LET p == CHOOSE i \in 1..Len(s) : s[i] = "," /\ \A j \in 1..(i - 1) : s[j] # ","
         IN <<SubSeq(s, 1, p - 1)>> \o Split(SubSeq(s, p + 1, Len(s)))

\* d[i] for a 0-based index i
At(d, i) == d[i + 1]

\* tuple comparison a < b on time tuples
TimeLess(a, b) ==
    \/ a[1] < b[1]
    \/ a[1] = b[1] /\ a[2] < b[2]
    \/ a[1] = b[1] /\ a[2] = b[2] /\ a[3] < b[3]

----
\* Value model

None == [isSet |-> FALSE, val |-> 0, unit |-> <<>>, time |-> <<0, 0, 0>>]

Value(v, u, t) == [isSet |-> TRUE, val |-> v, unit |-> u, time |-> t]

Distance(v, u, t) == Value(v, u, t)

Position(v, u, t) == Value(IF u \in {<<"N">>, <<"E">>} THEN v ELSE 0 - v, u, t)

Speed(v, u, t) == Value(v, u, t)

HDOP(v, t) == Value(v, <<>>, t)

Course(v, t) == Value(v, <<"D">>, t)

ZeroTime == <<0, 0, 0>>

----
\* Location

Location_init ==
    [valid |-> FALSE, lat |-> None, long |-> None, alt |-> None, height |-> None,
     speed |-> None, course |-> None, satellites |-> -1, hdop |-> None]

\* outcome of a step of Location.set: the object after the step and the exception raised
Ok(self) == [loc |-> self, exc |-> "None"]
Raise(self, e) == [loc |-> self, exc |-> e]
\* the statement after a step runs only when the step returned
Then(r, F(_)) == IF r.exc # "None" THEN r ELSE F(r.loc)

Location_seg_set(d, i) == Len(d) >= i + 1 /\ Len(At(d, i)) # 0 /\ ~Contains(At(d, i), "*")

Location_time_ok(ts) ==
    IsInt(PySlice(ts, 0, 2)) /\ IsInt(PySlice(ts, 2, 4)) /\ IsFloat(PySliceFrom(ts, 4))

Location_time_from_seg(ts) ==
    <<IntVal(PySlice(ts, 0, 2)), IntVal(PySlice(ts, 2, 4)), FloatVal(PySliceFrom(ts, 4))>>

\* variant: the HDOP is stored whatever the stored time tuple
Location_set_hdop_always(self, v, t) ==
    IF Len(v) = 0 THEN Ok(self)
    ELSE IF IsFloat(v) THEN Ok([self EXCEPT !.hdop = HDOP(FloatVal(v), t)])
         ELSE Raise(self, "ValueError")

Location_set_hdop(self, v, t) ==
    IF Len(v) = 0 THEN Ok(self)
    ELSE IF ~self.hdop.isSet \/ TimeLess(self.hdop.time, t)
         THEN IF IsFloat(v) THEN Ok([self EXCEPT !.hdop = HDOP(FloatVal(v), t)])
              ELSE Raise(self, "ValueError")
         ELSE Ok(self)

Location_set_speed(self, v, u, t) ==
    IF Len(v) = 0 THEN Ok(self)
    ELSE IF ~self.speed.isSet \/ TimeLess(self.speed.time, t)
         THEN IF IsFloat(v) THEN Ok([self EXCEPT !.speed = Speed(FloatVal(v), u, t)])
              ELSE Raise(self, "ValueError")
         ELSE Ok(self)

Location_set_course(self, v, t) ==
    IF Len(v) = 0 THEN Ok(self)
    ELSE IF ~self.course.isSet \/ TimeLess(self.course.time, t)
         THEN IF IsFloat(v) THEN Ok([self EXCEPT !.course = Course(FloatVal(v), t)])
              ELSE Raise(self, "ValueError")
         ELSE Ok(self)

\* variant: the latitude is stored only when one is already there and older
Location_set_lat_and(self, v, d, t) ==
    IF Len(v) = 0 THEN Ok(self)
    ELSE IF self.lat.isSet /\ TimeLess(self.lat.time, t)
         THEN IF IsFloat(PySlice(v, 0, 2)) /\ IsFloat(PySliceFrom(v, 2))
              THEN Ok([self EXCEPT !.lat =
                         Position(FloatVal(PySlice(v, 0, 2)) * 60 + FloatVal(PySliceFrom(v, 2)), d, t)])
              ELSE Raise(self, "ValueError")
         ELSE Ok(self)

Location_set_lat(self, v, d, t) ==
    IF Len(v) = 0 THEN Ok(self)
    ELSE IF ~self.lat.isSet \/ TimeLess(self.lat.time, t)
         THEN IF IsFloat(PySlice(v, 0, 2)) /\ IsFloat(PySliceFrom(v, 2))
              THEN Ok([self EXCEPT !.lat =
                         Position(FloatVal(PySlice(v, 0, 2)) * 60 + FloatVal(PySliceFrom(v, 2)), d, t)])
              ELSE Raise(self, "ValueError")
         ELSE Ok(self)

\* variant: the longitude is replaced when the stored one is newer
Location_set_long_reversed(self, v, d, t) ==
    IF Len(v) = 0 THEN Ok(self)
    ELSE IF ~self.long.isSet \/ TimeLess(t, self.long.time)
         THEN IF IsFloat(PySlice(v, 0, 3)) /\ IsFloat(PySliceFrom(v, 3))
              THEN Ok([self EXCEPT !.long =
                         Position(FloatVal(PySlice(v, 0, 3)) * 60 + FloatVal(PySliceFrom(v, 3)), d, t)])
              ELSE Raise(self, "ValueError")
         ELSE Ok(self)

Location_set_long(self, v, d, t) ==
    IF Len(v) = 0 THEN Ok(self)
    ELSE IF ~self.long.isSet \/ TimeLess(self.long.time, t)
         THEN IF IsFloat(PySlice(v, 0, 3)) /\ IsFloat(PySliceFrom(v, 3))
              THEN Ok([self EXCEPT !.long =
                         Position(FloatVal(PySlice(v, 0, 3)) * 60 + FloatVal(PySliceFrom(v, 3)), d, t)])
              ELSE Raise(self, "ValueError")
         ELSE Ok(self)

\* sentence identifiers, as the six bytes data[0:6]
GPGGA == <<"$", "G", "P", "G", "G", "A">>
GPGLL == <<"$", "G", "P", "G", "L", "L">>
GPRMC == <<"$", "G", "P", "R", "M", "C">>
GPVTG == <<"$", "G", "P", "V", "T", "G">>
GPGSV == <<"$", "G", "P", "G", "S", "V">>
GPMSS == <<"$", "G", "P", "M", "S", "S">>
GPXXX == <<"$", "G", "P", "X", "X", "X">>

\* variant: the GGA branch takes field 6 whenever it is present
Location_set_GGA_satellites_always(self, d) ==
    IF Location_seg_set(d, 6)
    THEN IF IsInt(At(d, 6))
         THEN Ok([self EXCEPT !.satellites = IntVal(At(d, 6))])
         ELSE Raise(self, "ValueError")
    ELSE Ok(self)

\* the GGA branch's satellite count: taken from field 6 only while the count is unset
Location_set_GGA_satellites(self, d) ==
    IF self.satellites < 0 /\ Location_seg_set(d, 6)
    THEN IF IsInt(At(d, 6))
         THEN Ok([self EXCEPT !.satellites = IntVal(At(d, 6))])
         ELSE Raise(self, "ValueError")
    ELSE Ok(self)

\* variant: the altitude is stored under the recency rule of the other fields
Location_set_GGA_alt_recency(self, d, t) ==
    IF Location_seg_set(d, 8) /\ (~self.alt.isSet \/ TimeLess(self.alt.time, t))
    THEN IF IsFloat(At(d, 8))
         THEN Ok([self EXCEPT !.alt =
                Distance(FloatVal(At(d, 8)),
                         IF ~Location_seg_set(d, 9) THEN <<"M">> ELSE At(d, 9), t)])
         ELSE Raise(self, "ValueError")
    ELSE Ok(self)

\* the GGA branch's altitude: stored whenever field 8 is present
Location_set_GGA_alt(self, d, t) ==
    IF Location_seg_set(d, 8)
    THEN IF IsFloat(At(d, 8))
         THEN Ok([self EXCEPT !.alt =
                Distance(FloatVal(At(d, 8)),
                         IF ~Location_seg_set(d, 9) THEN <<"M">> ELSE At(d, 9), t)])
         ELSE Raise(self, "ValueError")
    ELSE Ok(self)

Location_set_GGA(self, d) ==
    IF ~Location_time_ok(At(d, 0)) THEN Raise(self, "ValueError")
    ELSE LET t == Location_time_from_seg(At(d, 0))
             r1 == Location_set_lat(self, At(d, 1), At(d, 2), t)
             r2 == Then(r1, LAMBDA s : Location_set_long(s, At(d, 3), At(d, 4), t))
             r3 == Then(r2, LAMBDA s : Location_set_GGA_satellites(s, d))
             r4 == Then(r3, LAMBDA s :
                     IF Location_seg_set(d, 7) THEN Location_set_hdop(s, At(d, 7), t) ELSE Ok(s))
             r5 == Then(r4, LAMBDA s : Location_set_GGA_alt(s, d, t))
             r6 == Then(r5, LAMBDA s :
                     IF Location_seg_set(d, 10)
                     THEN IF IsFloat(At(d, 10))
                          THEN Ok([s EXCEPT !.height =
                                 Distance(FloatVal(At(d, 10)),
                                          IF ~Location_seg_set(d, 11) THEN <<"M">> ELSE At(d, 10), t)])
                          ELSE Raise(s, "ValueError")
                     ELSE Ok(s))
         IN r6

Location_set_GLL(self, d) ==
    IF ~Location_time_ok(At(d, 4)) THEN Raise(self, "ValueError")
    ELSE LET t == Location_time_from_seg(At(d, 4))
             r1 == Location_set_lat(self, At(d, 0), At(d, 1), t)
         IN Then(r1, LAMBDA s : Location_set_long(s, At(d, 2), At(d, 3), t))

Location_set_RMC(self, d) ==
    IF ~Location_time_ok(At(d, 0)) THEN Raise(self, "ValueError")
    ELSE LET t == Location_time_from_seg(At(d, 0))
             r1 == Location_set_lat(self, At(d, 2), At(d, 3), t)
             r2 == Then(r1, LAMBDA s : Location_set_long(s, At(d, 4), At(d, 5), t))
             r3 == Then(r2, LAMBDA s :
                     IF Len(d) < 7 THEN Raise(s, "IndexError")
                     ELSE Location_set_speed(s, At(d, 6), <<"N">>, t))
             r4 == Then(r3, LAMBDA s :
                     IF Len(d) < 8 THEN Raise(s, "IndexError")
                     ELSE Location_set_course(s, At(d, 7), t))
         IN r4

\* __set_course takes (v, t); the VTG branch calls it with three arguments
Location_set_VTG(self, d) ==
    LET r1 == Location_set_speed(self, At(d, 4), At(d, 6), ZeroTime)
    IN Then(r1, LAMBDA s : Raise(s, "TypeError"))

Location_set_GSV(self, d) ==
    IF IsInt(At(d, 2)) THEN Ok([self EXCEPT !.satellites = IntVal(At(d, 2))])
    ELSE Raise(self, "ValueError")

\* Location.set(msgid, segment): the object afterwards and the exception raised;
\* when it returns, its return value is the valid flag of the object
Location_set(self, msgid, segment) ==
    LET d == Split(segment)
        r == CASE msgid = GPGGA ->
                    IF Len(d) >= 6 /\ At(d, 5) \in {<<"1">>, <<"2">>, <<"6">>}
                    THEN Location_set_GGA(self, d) ELSE Ok(self)
               [] msgid = GPGLL ->
                    IF Len(d) >= 6 /\ At(d, 5) = <<"A">>
                    THEN Location_set_GLL(self, d) ELSE Ok(self)
               [] msgid = GPRMC ->
                    IF Len(d) >= 6 /\ At(d, 1) = <<"A">>
                    THEN Location_set_RMC(self, d) ELSE Ok(self)
               [] msgid = GPVTG ->
                    IF Len(d) >= 7 /\ At(d, 2) = <<"T">>
                    THEN Location_set_VTG(self, d) ELSE Ok(self)
               [] msgid = GPGSV ->
                    IF Location_seg_set(d, 2) /\ At(d, 0) = At(d, 1)
                    THEN Location_set_GSV(self, d) ELSE Ok(self)
               [] OTHER -> Ok(self)
    IN Then(r, LAMBDA s : Ok([s EXCEPT !.valid = ~(~s.lat.isSet \/ ~s.long.isSet)]))

Location_valid(self) == self.valid

\* what an accessor returns: a float, or the unset sentinel False
Unset == [sentinel |-> TRUE, val |-> 0]
Scalar(v) == [sentinel |-> FALSE, val |-> v]

Location_longitude(self) == IF self.lat.isSet THEN Scalar(self.lat.val) ELSE Unset
Location_latitude(self) == IF self.long.isSet THEN Scalar(self.long.val) ELSE Unset
Location_altitude(self) == IF self.alt.isSet THEN Scalar(self.alt.val) ELSE Unset
Location_satellites(self) == IF self.satellites >= 0 THEN Scalar(self.satellites) ELSE Unset

----
\* Inputs: payloads (the text between "$GPxxx," and the terminator)

SegGGA_Example ==
    <<"1", "2", "3", "5", "1", "9", ",", "4", "8", "0", "7", ".", "0", "3", "8", ",", "N", ",", "0", "1", "1", "3", "1", ".", "0", "0", "0", ",", "E", ",", "1", ",", "0", "8", ",", "0", ".", "9", ",", "5", "4", "5", ".", "4", ",", "M", ",", "4", "6", ".", "9", ",", "M", ",", ",", "*", "4", "7">>
SegGGA_Earlier ==
    <<"1", "2", "3", "5", "1", "8", ",", "4", "8", "0", "6", ".", "0", "0", "0", ",", "S", ",", "0", "1", "1", "3", "0", ".", "0", "0", "0", ",", "W", ",", "2", ",", "0", "5", ",", "1", ".", "2", ",", "1", "0", "0", ".", "0", ",", "F", ",", "4", "0", ".", "0">>
SegGGA_BadLong ==
    <<"1", "2", "3", "5", "2", "0", ",", "4", "8", "0", "8", ".", "0", "0", "0", ",", "N", ",", "0", "1", "1", "3", "x", ".", "0", "0", "0", ",", "E", ",", "1", ",", "0", "8", ",", "0", ".", "9">>
SegGGA_BadSat ==
    <<"1", "2", "3", "5", "1", "9", ",", "4", "8", "0", "7", ".", "0", "3", "8", ",", "N", ",", "0", "1", "1", "3", "1", ".", "0", "0", "0", ",", "E", ",", "1", ",", "x", "8", ",", "0", ".", "9", ",", "5", "4", "5", ".", "4", ",", "M">>
SegGGA_NoLat ==
    <<"1", "2", "3", "5", "2", "0", ",", ",", ",", "0", "1", "1", "3", "2", ".", "0", "0", "0", ",", "E", ",", "6", ",", ",", ",", ",", ",", "*", "4", "7">>
SegGGA_NoFix ==
    <<"1", "2", "3", "5", "2", "1", ",", "4", "8", "0", "9", ".", "0", "0", "0", ",", "N", ",", "0", "1", "1", "3", "3", ".", "0", "0", "0", ",", "E", ",", "0", ",", "0", "9", ",", "0", ".", "8", ",", "6", "0", "0", ".", "0", ",", "M">>
SegGGA_Short ==
    <<"1", "2", "3", "5", "2", "1", ",", "4", "8", "0", "9", ".", "0", "0", "0", ",", "N", ",", "0", "1", "1", "3", "3", ".", "0", "0", "0", ",", "E">>
SegGGA_NoTime ==
    <<",", "4", "8", "0", "9", ".", "0", "0", "0", ",", "N", ",", "0", "1", "1", "3", "3", ".", "0", "0", "0", ",", "E", ",", "1", ",", "0", "9">>
SegGGA_Six ==
    <<"1", "2", "3", "5", "2", "2", ",", "4", "8", "1", "0", ".", "0", "0", "0", ",", "N", ",", "0", "1", "1", "3", "4", ".", "0", "0", "0", ",", "E", ",", "2">>
SegGLL_Ok ==
    <<"4", "9", "1", "6", ".", "4", "5", "0", ",", "N", ",", "1", "2", "3", "1", "1", ".", "1", "2", "0", ",", "W", ",", "1", "2", "3", "5", "2", "0", ",", "A", ",", "*", "1", "D">>
SegGLL_Void ==
    <<"4", "9", "1", "7", ".", "0", "0", "0", ",", "N", ",", "1", "2", "3", "1", "2", ".", "0", "0", "0", ",", "W", ",", "1", "2", "3", "5", "2", "1", ",", "V", ",", "*", "1", "D">>
SegRMC_Ok ==
    <<"1", "2", "3", "5", "2", "1", ",", "A", ",", "4", "8", "0", "7", ".", "0", "3", "8", ",", "N", ",", "0", "1", "1", "3", "1", ".", "0", "0", "0", ",", "E", ",", "0", "2", "2", ".", "4", ",", "0", "8", "4", ".", "4", ",", "2", "3", "0", "3", "9", "4", ",", "0", "0", "3", ".", "1", ",", "W", "*", "6", "A">>
SegRMC_Void ==
    <<"1", "2", "3", "5", "2", "2", ",", "V", ",", "4", "8", "0", "9", ".", "0", "0", "0", ",", "N", ",", "0", "1", "1", "3", "3", ".", "0", "0", "0", ",", "E", ",", "0", "3", "0", ".", "0", ",", "0", "9", "0", ".", "0">>
SegRMC_Six ==
    <<"1", "2", "3", "5", "1", "9", ",", "A", ",", "4", "8", "0", "7", ".", "0", "3", "8", ",", "N", ",", "0", "1", "1", "3", "1", ".", "0", "0", "0", ",", "E">>
SegVTG_True ==
    <<"0", "5", "4", ".", "7", ",", "T", ",", "T", ",", "M", ",", "0", "0", "5", ".", "5", ",", "0", "8", "4", ".", "4", ",", "N">>
SegVTG_Std ==
    <<"0", "5", "4", ".", "7", ",", "T", ",", "0", "3", "4", ".", "4", ",", "M", ",", "0", "0", "5", ".", "5", ",", "N", ",", "0", "1", "0", ".", "2", ",", "K", "*", "4", "8">>
SegGSV_Single ==
    <<"1", ",", "1", ",", "0", "5", ",", "0", "1", ",", "4", "0", ",", "0", "8", "3", ",", "4", "6">>
SegGSV_Multi ==
    <<"2", ",", "1", ",", "0", "9", ",", "0", "1", ",", "4", "0", ",", "0", "8", "3", ",", "4", "6">>
SegGSV_BadCount ==
    <<"1", ",", "1", ",", "x", "x", ",", "0", "1", ",", "4", "0">>
SegMSS ==
    <<"5", "5", ",", "2", "7", ",", "3", "1", "8", ".", "0", ",", "1", "0", "0", ",", "*", "6", "6">>

\* the (msgid, segment) pairs handed to Location.set
Sentences ==
    << [id |-> GPGGA, seg |-> SegGGA_Example],
       [id |-> GPGGA, seg |-> SegGGA_Earlier],
       [id |-> GPGGA, seg |-> SegGGA_BadLong],
       [id |-> GPGGA, seg |-> SegGGA_BadSat],
       [id |-> GPGGA, seg |-> SegGGA_NoLat],
       [id |-> GPGGA, seg |-> SegGGA_NoFix],
       [id |-> GPGGA, seg |-> SegGGA_Short],
       [id |-> GPGGA, seg |-> SegGGA_NoTime],
       [id |-> GPGLL, seg |-> SegGLL_Ok],
       [id |-> GPGLL, seg |-> SegGLL_Void],
       [id |-> GPRMC, seg |-> SegRMC_Ok],
       [id |-> GPRMC, seg |-> SegRMC_Void],
       [id |-> GPRMC, seg |-> SegRMC_Six],
       [id |-> GPVTG, seg |-> SegVTG_True],
       [id |-> GPVTG, seg |-> SegVTG_Std],
       [id |-> GPGSV, seg |-> SegGSV_Single],
       [id |-> GPGSV, seg |-> SegGSV_Multi],
       [id |-> GPMSS, seg |-> SegMSS],
       [id |-> GPXXX, seg |-> SegMSS],
       [id |-> GPGSV, seg |-> SegGSV_BadCount],
       [id |-> GPGGA, seg |-> SegGGA_Six] >>

CRLF == <<"\r", "\n">>

\* a line as the UART delivers it: $<identifier>,<payload><terminator>
WireLine(id, seg, term) == id \o <<",">> \o seg \o term

\* the lines readline() can return
Lines ==
    << WireLine(GPGGA, SegGGA_Example, CRLF),
       WireLine(GPGGA, SegGGA_BadSat, CRLF),
       WireLine(GPRMC, SegRMC_Void, CRLF),
       WireLine(GPGLL, SegGLL_Ok, <<>>),
       WireLine(GPGGA, SegGGA_Example, <<"\r">>),
       <<"x", "\r", "\n">> >>

\* the ttw arguments of new_location
TTWs == {1, 2}

----
\* Data

\* b''.join(data)
RECURSIVE Join(_)
Join(l) == IF l = <<>> THEN <<>> ELSE Head(l) \o Join(Tail(l))

\* "%s" % (b,): the repr of a bytes object, b'...' with CR and LF escaped
RECURSIVE Escape(_)
Escape(b) ==
    IF b = <<>> THEN <<>>
    ELSE (CASE Head(b) = "\r" -> <<"\\", "r">>
            [] Head(b) = "\n" -> <<"\\", "n">>
            [] OTHER -> <<Head(b)>>) \o Escape(Tail(b))
BytesStr(b) == <<"b", "'">> \o Escape(b) \o <<"'">>

\* variant: __update never stamps __last_update
Data_last_update_never(valid, lu, t) == lu

\* __update stamps __last_update when Location.set returned True
Data_last_update(valid, lu, t) == IF valid THEN t ELSE lu

\* the end of __update: r is the outcome of Location.set
Data_update_set(r, lu, t) ==
    [loc |-> r.loc, exc |-> r.exc,
     last_update |-> IF r.exc = "None"
                     THEN Data_last_update(Location_valid(r.loc), lu, t) ELSE lu]

\* `data += '\n'` adds a str to a bytes object: CPython 3 raises TypeError,
\* an interpreter whose bytes + takes any buffer (MicroPython, the UART target)
\* appends the byte; the outcome depends on the interpreter that runs the module
BytesPlusStr == {"TypeError", "concat"}

\* the set() call of __update on the terminated bytes b
Data_update_dispatch(self, b, lu, t) ==
    Data_update_set(Location_set(self, PySlice(b, 0, 6),
                                 PySlice(BytesStr(PySlice(b, 7, Len(b) - 2)), 2, -1)),
                    lu, t)

\* variant: no test of the last byte, every joined buffer is dispatched
Data_update_joined_nocheck(self, b, lu, t, m) ==
    Data_update_dispatch(self, b, lu, t)

\* __update once the buffer is joined into the bytes b; m is the outcome of bytes + str
Data_update_joined(self, b, lu, t, m) ==
    IF PySlice(b, Len(b) - 1, Len(b)) \notin {<<"\n">>, <<"\r">>}
    THEN [loc |-> self, exc |-> "None", last_update |-> lu]
    ELSE IF PySlice(b, Len(b) - 1, Len(b)) # <<"\n">>
    THEN IF m = "TypeError"
         THEN [loc |-> self, exc |-> "TypeError", last_update |-> lu]
         ELSE Data_update_dispatch(self, b \o <<"\n">>, lu, t)
    ELSE Data_update_dispatch(self, b, lu, t)

\* Data.__update(data) on the Location self: the object afterwards, the
\* exception raised and the new value of __last_update
Data_update(self, d, lu, t, m) ==
    IF Len(d) = 0 THEN [loc |-> self, exc |-> "None", last_update |-> lu]
    ELSE Data_update_joined(self, Join(d), lu, t, m)

BoolStr(b) == IF b THEN "True" ELSE "False"

Init ==
    /\ heap = <<>>
    /\ self_data = 0
    /\ last_update = 0
    /\ now = 0
    /\ pc = "idle"
    /\ data = <<>>
    /\ ret = "none"
    /\ ttw = 0
    /\ com_calls = 0
    /\ last_poll = -1
    /\ got = 0
    /\ call = 0
    /\ exc = "None"
    /\ lines_read = <<>>
    /\ flushed = <<>>

\* the throttle test of new_location
Throttled(t, lu, w) == t - (lu + w) < 0

\* variant: the Location is constructed once and every later cycle reuses it
NewLocation_reuse(w) ==
    /\ pc = "idle"
    /\ ttw' = w
    /\ com_calls' = 0
    /\ exc' = "None"
    /\ IF Throttled(now, last_update, w)
       THEN /\ ret' = "False"
            /\ UNCHANGED <<heap, self_data, pc, data, last_poll>>
       ELSE /\ IF self_data = 0
               THEN heap' = Append(heap, Location_init) /\ self_data' = Len(heap) + 1
               ELSE UNCHANGED <<heap, self_data>>
            /\ data' = <<>>
            /\ pc' = "loop"
            /\ ret' = "none"
            /\ last_poll' = now
    /\ UNCHANGED <<last_update, now, got, call>>

\* new_location(w) up to the first any(): throttled return, or a fresh Location
NewLocation(w) ==
    /\ pc = "idle"
    /\ ttw' = w
    /\ com_calls' = 0
    /\ exc' = "None"
    /\ IF Throttled(now, last_update, w)
       THEN /\ ret' = "False"
            /\ UNCHANGED <<heap, self_data, pc, data, last_poll>>
       ELSE /\ Len(heap) < MaxLocs
            /\ heap' = Append(heap, Location_init)
            /\ self_data' = Len(heap) + 1
            /\ data' = <<>>
            /\ pc' = "loop"
            /\ ret' = "none"
            /\ last_poll' = now
    /\ UNCHANGED <<last_update, now, got, call>>

\* an exception leaves new_location: the local list is gone, the Location stays as it is
Abort(u) ==
    /\ heap' = [heap EXCEPT ![self_data] = u.loc]
    /\ last_update' = u.last_update
    /\ exc' = u.exc
    /\ ret' = "raised"
    /\ pc' = "idle"
    /\ data' = <<>>

\* a sentence start: the open buffer is flushed (u is the outcome of __update)
\* and the line opens the next buffer
LoopRead_start(u, tmp_data) ==
    IF u.exc # "None" THEN Abort(u)
    ELSE /\ heap' = [heap EXCEPT ![self_data] = u.loc]
         /\ last_update' = u.last_update
         /\ data' = <<tmp_data>>
         /\ UNCHANGED <<pc, ret, exc>>

\* one iteration of the while loop: any() is true and readline() returns Lines[i]
LoopRead(i) ==
    /\ pc = "loop"
    /\ com_calls < 2 * MaxLines
    /\ com_calls' = com_calls + 2
    /\ IF PySlice(Lines[i], 0, 1) = <<"$">>
       THEN \E m \in BytesPlusStr :
                LoopRead_start(Data_update(heap[self_data], data, last_update, now, m), Lines[i])
       ELSE /\ data' = IF Len(data) # 0 THEN Append(data, Lines[i]) ELSE data
            /\ UNCHANGED <<heap, last_update, pc, ret, exc>>
    /\ UNCHANGED <<self_data, now, ttw, last_poll, got, call>>

\* the last flush (u is the outcome of __update) and the return of new_location
LoopEnd_return(u) ==
    IF u.exc # "None" THEN Abort(u)
    ELSE /\ heap' = [heap EXCEPT ![self_data] = u.loc]
         /\ last_update' = u.last_update
         /\ ret' = BoolStr(Location_valid(u.loc))
         /\ pc' = "idle"
         /\ data' = <<>>
         /\ exc' = "None"

\* any() is false: the else clause flushes the open buffer and new_location returns
LoopEnd ==
    /\ pc = "loop"
    /\ com_calls' = com_calls + 1
    /\ \E m \in BytesPlusStr :
          LoopEnd_return(Data_update(heap[self_data], data, last_update, now, m))
    /\ UNCHANGED <<self_data, now, ttw, last_poll, got, call>>

\* get_location(): returns self.__data, AttributeError while it was never assigned
GetLocation ==
    /\ pc = "idle"
    /\ got' = IF self_data = 0 THEN -1 ELSE self_data
    /\ UNCHANGED <<heap, self_data, last_update, now, pc, data, ret, ttw, com_calls, last_poll, call, exc,
                   lines_read, flushed>>

\* the clock advances
Tick ==
    /\ now < MaxTime
    /\ now' = now + 1
    /\ UNCHANGED <<heap, self_data, last_update, pc, data, ret, ttw, com_calls, last_poll, got, call, exc,
                   lines_read, flushed>>

Next ==
    \/ \E w \in TTWs : NewLocation(w) /\ UNCHANGED <<lines_read, flushed>>
    \/ \E i \in 1..Len(Lines) : LoopRead(i) /\ UNCHANGED <<lines_read, flushed>>
    \/ LoopEnd /\ UNCHANGED <<lines_read, flushed>>
    \/ GetLocation
    \/ Tick

Spec == Init /\ [][Next]_vars

----
\* One decode cycle with its framing on record: lines_read and flushed keep the
\* lines readline() returned and the buffers __update was called with

\* the buffers handed to __update so far, after one more call with the list d
Flushed(d) == IF Len(d) # 0 THEN Append(flushed, d) ELSE flushed

\* new_location(w) while no decode cycle has run yet
FrameNew(w) ==
    /\ last_poll = -1
    /\ NewLocation(w)
    /\ lines_read' = <<>>
    /\ flushed' = <<>>

\* a loop iteration: readline() returned Lines[i]; a sentence start calls __update(data)
FrameRead(i) ==
    /\ LoopRead(i)
    /\ lines_read' = Append(lines_read, Lines[i])
    /\ flushed' = IF PySlice(Lines[i], 0, 1) = <<"$">> THEN Flushed(data) ELSE flushed

\* the else clause of the loop calls __update(data)
FrameEnd ==
    /\ LoopEnd
    /\ flushed' = Flushed(data)
    /\ UNCHANGED lines_read

FrameNext ==
    \/ \E w \in TTWs : FrameNew(w)
    \/ \E i \in 1..Len(Lines) : FrameRead(i)
    \/ FrameEnd
    \/ Tick

FrameSpec == Init /\ [][FrameNext]_vars

----
\* A Location used directly: loc = Location(), then loc.set(msgid, segment) calls

LocInit ==
    /\ heap = <<Location_init>>
    /\ self_data = 0
    /\ last_update = 0
    /\ now = 0
    /\ pc = "idle"
    /\ data = <<>>
    /\ ret = "none"
    /\ ttw = 0
    /\ com_calls = 0
    /\ last_poll = -1
    /\ got = 0
    /\ call = 0
    /\ exc = "None"
    /\ lines_read = <<>>
    /\ flushed = <<>>

\* r is the outcome of Location.set on the object
LocationSet_outcome(r) ==
    /\ heap' = <<r.loc>>
    /\ exc' = r.exc

LocationSet(i) ==
    /\ LocationSet_outcome(Location_set(heap[1], Sentences[i].id, Sentences[i].seg))
    /\ call' = i
    /\ UNCHANGED <<self_data, last_update, now, pc, data, ret, ttw, com_calls, last_poll, got,
                   lines_read, flushed>>

LocNext == \E i \in 1..Len(Sentences) : LocationSet(i)

LocSpec == LocInit /\ [][LocNext]_vars

----
\* Properties

\* the fields of the sentence last handed to Location.set
Fields(i) == Split(Sentences[i].seg)
FieldOr(d, k) == IF Len(d) >= k + 1 THEN At(d, k) ELSE <<>>

\* C1: in every observable state of a Location, valid() is true exactly when
\* latitude and longitude are both set, also after a set() that stopped part-way
C1_ValidIffLatLong ==
    pc = "idle" =>
        \A i \in DOMAIN heap : heap[i].valid = (heap[i].lat.isSet /\ heap[i].long.isSet)

\* a sentence the handlers accept and whose fields all parse, with the
\* measurements it carries for the recency-merged fields
LatOk(v) == Len(v) = 0 \/ (IsFloat(PySlice(v, 0, 2)) /\ IsFloat(PySliceFrom(v, 2)))
LongOk(v) == Len(v) = 0 \/ (IsFloat(PySlice(v, 0, 3)) /\ IsFloat(PySliceFrom(v, 3)))
NumOk(v) == Len(v) = 0 \/ Contains(v, "*") \/ IsFloat(v)
NoMeasurement ==
    [acc |-> FALSE, t |-> ZeroTime, lat |-> <<>>, long |-> <<>>, speed |-> <<>>,
     course |-> <<>>, hdop |-> <<>>]
Measurements(i) ==
    LET id == Sentences[i].id
        d == Fields(i)
    IN CASE id = GPGGA /\ Len(d) >= 6 /\ At(d, 5) \in {<<"1">>, <<"2">>, <<"6">>}
              /\ Location_time_ok(At(d, 0)) /\ LatOk(At(d, 1)) /\ LongOk(At(d, 3))
              /\ (Location_seg_set(d, 6) => IsInt(At(d, 6)))
              /\ NumOk(FieldOr(d, 7)) /\ NumOk(FieldOr(d, 8)) /\ NumOk(FieldOr(d, 10)) ->
                [acc |-> TRUE, t |-> Location_time_from_seg(At(d, 0)),
                 lat |-> At(d, 1), long |-> At(d, 3), speed |-> <<>>, course |-> <<>>,
                 hdop |-> IF Location_seg_set(d, 7) THEN At(d, 7) ELSE <<>>]
         [] id = GPGLL /\ Len(d) >= 6 /\ At(d, 5) = <<"A">>
              /\ Location_time_ok(At(d, 4)) /\ LatOk(At(d, 0)) /\ LongOk(At(d, 2)) ->
                [acc |-> TRUE, t |-> Location_time_from_seg(At(d, 4)),
                 lat |-> At(d, 0), long |-> At(d, 2), speed |-> <<>>, course |-> <<>>,
                 hdop |-> <<>>]
         [] id = GPRMC /\ Len(d) >= 8 /\ At(d, 1) = <<"A">>
              /\ Location_time_ok(At(d, 0)) /\ LatOk(At(d, 2)) /\ LongOk(At(d, 4))
              /\ (Len(At(d, 6)) = 0 \/ IsFloat(At(d, 6)))
              /\ (Len(At(d, 7)) = 0 \/ IsFloat(At(d, 7))) ->
                [acc |-> TRUE, t |-> Location_time_from_seg(At(d, 0)),
                 lat |-> At(d, 2), long |-> At(d, 4), speed |-> At(d, 6), course |-> At(d, 7),
                 hdop |-> <<>>]
         [] id = GPVTG /\ Len(d) >= 7 /\ At(d, 2) = <<"T">>
              /\ (Len(At(d, 4)) = 0 \/ IsFloat(At(d, 4)))
              /\ (Len(At(d, 5)) = 0 \/ IsFloat(At(d, 5))) ->
                [acc |-> TRUE, t |-> ZeroTime,
                 lat |-> <<>>, long |-> <<>>, speed |-> At(d, 4), course |-> At(d, 5),
                 hdop |-> <<>>]
         [] OTHER -> NoMeasurement

\* the recency rule for one field: old and new are the field before and after
\* the sentence, v and t the sentence's measurement
RecencyRule(old, new, v, t) ==
    Len(v) # 0 =>
        IF ~old.isSet \/ TimeLess(old.time, t)
        THEN new.isSet /\ new.time = t
        ELSE new = old

\* C2: for latitude, longitude, speed, course and HDOP, a measurement with a
\* time tuple less than or equal to the stored one never changes the field, and a
\* non-empty measurement replaces the field when it is unset or strictly older
C2_RecencyMerge ==
    [][LET m == Measurements(call')
           old == heap[1]
           new == heap'[1]
       IN m.acc =>
            /\ RecencyRule(old.lat, new.lat, m.lat, m.t)
            /\ RecencyRule(old.long, new.long, m.long, m.t)
            /\ RecencyRule(old.speed, new.speed, m.speed, m.t)
            /\ RecencyRule(old.course, new.course, m.course, m.t)
            /\ RecencyRule(old.hdop, new.hdop, m.hdop, m.t)]_vars

\* C3: a sentence with a malformed or missing field does not abort the decode
\* cycle: no parse failure of a handler (ValueError for a non-numeric or empty
\* field, IndexError for a missing one) leaves new_location
C3_CycleNeverRaises == ~(ret = "raised" /\ exc \in {"ValueError", "IndexError"})

\* C4: a Location.set that fails to parse leaves every field of the Location
\* as it was before the call
C4_FailureAtomic == [][exc' # "None" => heap'[1] = heap[1]]_vars

\* C5: latitude() returns the value of the stored latitude and longitude() the
\* value of the stored longitude, each the unset sentinel exactly when its own
\* field is unset
C5_Accessors ==
    \A i \in DOMAIN heap :
        /\ Location_latitude(heap[i]) =
              IF heap[i].lat.isSet THEN Scalar(heap[i].lat.val) ELSE Unset
        /\ Location_longitude(heap[i]) =
              IF heap[i].long.isSet THEN Scalar(heap[i].long.val) ELSE Unset

\* C6: a throttled new_location returns False, and one that ran a cycle returns
\* exactly the valid flag of the Location get_location returns afterwards, which
\* is true only if latitude and longitude were both set in this cycle
C6_ReturnsValidFlag ==
    (pc = "idle" /\ ret # "none") =>
        IF com_calls = 0 THEN ret = "False"
        ELSE /\ ret = BoolStr(Location_valid(heap[self_data]))
             /\ ret = "True" => heap[self_data].lat.isSet /\ heap[self_data].long.isSet

\* what a throttled call does: it returns False, leaves the UART alone and
\* keeps the current Location
ThrottledReturn ==
    /\ ret' = "False"
    /\ com_calls' = 0
    /\ pc' = "idle"
    /\ UNCHANGED <<heap, self_data>>

\* C7 as stated: a call within ttw of the previous decode cycle is throttled,
\* whether or not that cycle produced a valid fix
C7_ThrottleAfterAnyCycle ==
    [][\A w \in TTWs :
          (NewLocation(w) /\ last_poll >= 0 /\ now - last_poll < w) => ThrottledReturn]_vars

\* C7 amended: a call within ttw of the previous decode cycle is throttled when
\* that cycle left its Location valid
C7_ThrottleAfterValidCycle ==
    [][\A w \in TTWs :
          (NewLocation(w) /\ last_poll >= 0 /\ now - last_poll < w
             /\ Location_valid(heap[self_data])) => ThrottledReturn]_vars

C7_Witness ==
    /\ pc = "idle" /\ ret = "False" /\ com_calls = 0
    /\ self_data > 0 /\ Location_valid(heap[self_data])
    /\ last_poll >= 0 /\ now - last_poll < ttw

\* C8: a cycle starts from a fresh Location with every field unset, and a
\* Location is changed only while it is the one of the running cycle: once
\* new_location is over no later call changes it
C8_FreshLocationPerCycle ==
    [][/\ (pc = "idle" /\ pc' = "loop") =>
             /\ self_data' \notin DOMAIN heap
             /\ LET l == heap'[self_data']
                IN /\ ~l.valid /\ l.satellites = -1
                   /\ ~l.lat.isSet /\ ~l.long.isSet /\ ~l.alt.isSet /\ ~l.height.isSet
                   /\ ~l.speed.isSet /\ ~l.course.isSet /\ ~l.hdop.isSet
       /\ \A i \in DOMAIN heap :
             (pc = "idle" \/ i # self_data) => (i \in DOMAIN heap' /\ heap'[i] = heap[i])]_vars

C8_Witness ==
    /\ got = 1 /\ self_data = 2 /\ pc = "idle" /\ ret = "False" /\ com_calls > 0
    /\ Location_valid(heap[1]) /\ heap[1].satellites = 8
    /\ ~heap[2].lat.isSet

\* C9 as stated: once the satellite count is set no later sentence changes it
C9_SatellitesSetOnce ==
    [][heap[1].satellites >= 0 => heap'[1].satellites = heap[1].satellites]_vars

\* C9 amended: once the satellite count is set only a GSV sentence with
\* field[0] = field[1] and field[2] present changes it, to its field[2]
C9_SatellitesOnlyGSV ==
    [][heap[1].satellites >= 0 =>
          \/ heap'[1].satellites = heap[1].satellites
          \/ LET d == Fields(call')
             IN /\ Sentences[call'].id = GPGSV
                /\ Location_seg_set(d, 2) /\ At(d, 0) = At(d, 1)
                /\ heap'[1].satellites = IntVal(At(d, 2))]_vars

C9_Witness ==
    /\ call > 0
    /\ Sentences[call].id = GPGGA /\ exc = "None"
    /\ Location_seg_set(Fields(call), 6) /\ IsInt(At(Fields(call), 6))
    /\ At(Fields(call), 5) \in {<<"1">>, <<"2">>, <<"6">>}
    /\ heap[1].satellites >= 0 /\ heap[1].satellites # IntVal(At(Fields(call), 6))

\* a sentence that is rejected or contributes nothing
Rejected(i) ==
    LET id == Sentences[i].id
        d == Fields(i)
    IN \/ id = GPGLL /\ FieldOr(d, 5) # <<"A">>
       \/ id = GPGGA /\ FieldOr(d, 5) \notin {<<"1">>, <<"2">>, <<"6">>}
       \/ id = GPRMC /\ FieldOr(d, 1) # <<"A">>
       \/ id = GPMSS
       \/ id \notin {GPGGA, GPGLL, GPRMC, GPVTG, GPGSV, GPMSS}

\* C10: a rejected or non-contributing sentence changes no field, leaves valid()
\* at its prior value and does not raise
C10_RejectedChangesNothing ==
    [][Rejected(call') => (heap'[1] = heap[1] /\ exc' = "None")]_vars

\* C11: a GGA sentence with at least 6 fields, fix quality "1", "2" or "6",
\* fields that all parse and a latitude and a longitude, applied to a Location
\* in any prior state, returns with latitude and longitude set and valid() true
C11_ValidGGASetsPosition ==
    [][\A i \in 1..Len(Sentences) :
          (/\ call' = i
           /\ Sentences[i].id = GPGGA
           /\ Measurements(i).acc
           /\ Len(Measurements(i).lat) # 0 /\ Len(Measurements(i).long) # 0)
          => (/\ exc' = "None"
              /\ heap'[1].lat.isSet /\ heap'[1].long.isSet
              /\ Location_valid(heap'[1]))]_vars

\* a GGA sentence of exactly 6 fields made a fresh Location valid
C11_Witness ==
    /\ call > 0
    /\ Sentences[call].seg = SegGGA_Six /\ Sentences[call].id = GPGGA
    /\ exc = "None"
    /\ heap[1].lat.time = <<12, 35, 22000>> /\ heap[1].long.time = <<12, 35, 22000>>
    /\ Location_valid(heap[1])
    /\ ~heap[1].hdop.isSet /\ heap[1].satellites = -1

\* the joined buffer ends in neither CR nor LF
Unterminated(d) ==
    PySlice(Join(d), Len(Join(d)) - 1, Len(Join(d))) \notin {<<"\n">>, <<"\r">>}

\* C12: a flushed buffer whose last byte is neither CR nor LF is dropped: the
\* Location and __last_update stay as they are, nothing is raised, and the cycle
\* goes on as if the buffer had not been there (the next buffer is the line just
\* read, the return value is the flag of the unchanged Location)
C12_UnterminatedDropped ==
    [][(pc = "loop" /\ flushed' # flushed /\ Unterminated(data))
       => (/\ heap' = heap
           /\ last_update' = last_update
           /\ exc' = "None" /\ ret' # "raised"
           /\ IF pc' = "loop"
              THEN data' = <<lines_read'[Len(lines_read')]>>
              ELSE ret' = BoolStr(Location_valid(heap[self_data])))]_vars

\* a buffer was dropped and a buffer flushed after it made the Location valid
C12_Witness ==
    /\ pc = "idle" /\ ret = "True"
    /\ Len(flushed) = 2
    /\ Unterminated(flushed[1])
    /\ ~Unterminated(flushed[2])
    /\ Location_valid(heap[self_data])

\* C13: get_location() returns a Location in every reachable state of a Data
\* object, also before the first decode cycle; it never raises
C13_GetLocationReturns == got # -1

\* the buffers the loop of new_location is to make of the lines ls: one per line
\* that starts with '$', holding that line and the lines up to the next such line
RECURSIVE Frames(_)
Frames(ls) ==
    IF Len(ls) = 0 THEN <<>>
    ELSE IF PySlice(ls[Len(ls)], 0, 1) = <<"$">>
         THEN Append(Frames(SubSeq(ls, 1, Len(ls) - 1)), <<ls[Len(ls)]>>)
         ELSE IF Len(Frames(SubSeq(ls, 1, Len(ls) - 1))) = 0 THEN <<>>
              ELSE [Frames(SubSeq(ls, 1, Len(ls) - 1))
                      EXCEPT ![Len(Frames(SubSeq(ls, 1, Len(ls) - 1)))] = Append(@, ls[Len(ls)])]

\* C14: for any sequence of lines read in one decode cycle, the buffers handed
\* to __update are, in order, one buffer per '$' line with the lines that follow
\* it up to the next '$' line or the end of input; lines before the first '$'
\* line are in no buffer and every buffer is flushed exactly once
C14_Framing ==
    (pc = "idle" /\ last_poll # -1) => flushed = Frames(lines_read)

\* the same for the decode cycles that return
C14_FramingOfReturningCycles ==
    (pc = "idle" /\ last_poll # -1 /\ ret # "raised") => flushed = Frames(lines_read)

\* C15: a VTG sentence with at least 7 fields and field[2] = "T" completes
\* without error and merges speed field[4] in unit field[6] and course field[5],
\* stamped (0, 0, 0.0), under the recency rule
C15_VTGUpdatesSpeedCourse ==
    [][\A i \in 1..Len(Sentences) :
          (call' = i /\ Sentences[i].id = GPVTG /\ Measurements(i).acc)
          => (/\ exc' = "None"
              /\ RecencyRule(heap[1].speed, heap'[1].speed, Measurements(i).speed, ZeroTime)
              /\ RecencyRule(heap[1].course, heap'[1].course, Measurements(i).course, ZeroTime)
              /\ (~heap[1].speed.isSet /\ Len(Measurements(i).speed) # 0)
                   => heap'[1].speed = Speed(FloatVal(At(Fields(i), 4)), At(Fields(i), 6), ZeroTime)
              /\ (~heap[1].course.isSet /\ Len(Measurements(i).course) # 0)
                   => heap'[1].course = Course(FloatVal(At(Fields(i), 5)), ZeroTime))]_vars

\* an RMC sentence that passes the acceptance test and whose fields, as far as
\* it has them, parse
AcceptedRMC(i) ==
    LET d == Fields(i)
    IN /\ Sentences[i].id = GPRMC
       /\ Len(d) >= 6 /\ At(d, 1) = <<"A">>
       /\ Location_time_ok(At(d, 0)) /\ LatOk(At(d, 2)) /\ LongOk(At(d, 4))
       /\ (Len(FieldOr(d, 6)) = 0 \/ IsFloat(FieldOr(d, 6)))
       /\ (Len(FieldOr(d, 7)) = 0 \/ IsFloat(FieldOr(d, 7)))

\* C16: every RMC sentence with at least 6 fields and field[1] = "A", also one
\* of exactly 6 or 7 fields, is handled without error: latitude and longitude
\* are merged from fields 2 to 5, speed and course from field[6] and field[7]
\* when the sentence has them, and valid is recomputed before set() returns
C16_RMCHandled ==
    [][\A i \in 1..Len(Sentences) :
          (call' = i /\ AcceptedRMC(i))
          => (/\ exc' = "None"
              /\ RecencyRule(heap[1].lat, heap'[1].lat, At(Fields(i), 2),
                             Location_time_from_seg(At(Fields(i), 0)))
              /\ RecencyRule(heap[1].long, heap'[1].long, At(Fields(i), 4),
                             Location_time_from_seg(At(Fields(i), 0)))
              /\ RecencyRule(heap[1].speed, heap'[1].speed, FieldOr(Fields(i), 6),
                             Location_time_from_seg(At(Fields(i), 0)))
              /\ RecencyRule(heap[1].course, heap'[1].course, FieldOr(Fields(i), 7),
                             Location_time_from_seg(At(Fields(i), 0)))
              /\ heap'[1].valid = (heap'[1].lat.isSet /\ heap'[1].long.isSet))]_vars

\* the joined buffer ends in CR
CRTerminated(d) == PySlice(Join(d), Len(Join(d)) - 1, Len(Join(d))) = <<"\r">>

\* the step leaves the Location, the exception and __last_update as the outcome u
SameOutcome(u) ==
    /\ heap'[self_data] = u.loc
    /\ exc' = u.exc
    /\ last_update' = u.last_update

\* C17: a flushed buffer whose last byte is CR is accepted: it is neither
\* dropped nor an error, and the sentence is dispatched exactly like the same
\* sentence terminated by CR LF
C17_CRTerminatedAccepted ==
    [][(pc = "loop" /\ flushed' # flushed /\ CRTerminated(data))
       => SameOutcome(Data_update(heap[self_data], <<Join(data) \o <<"\n">>>>,
                                  last_update, now, "concat"))]_vars

\* the field is the measurement v of a sentence stamped t
StoredFrom(new, v, t) == new.isSet /\ new.val = FloatVal(v) /\ new.time = t

\* C18: altitude and height bypass the recency rule: an accepted GGA sentence
\* whose field[8] (field[10]) is present stores its value and time tuple as the
\* altitude (height) even when that time tuple is earlier than or equal to the
\* stored one; a GGA sentence whose field[8] (field[10]) is absent, empty or
\* holds '*' leaves the altitude (height) unchanged, and so does every sentence
\* of another type
C18_AltitudeHeightBypassRecency ==
    [][\A i \in 1..Len(Sentences) :
          call' = i =>
             /\ (Sentences[i].id = GPGGA /\ Measurements(i).acc /\ Location_seg_set(Fields(i), 8))
                  => StoredFrom(heap'[1].alt, At(Fields(i), 8), Measurements(i).t)
             /\ (Sentences[i].id = GPGGA /\ Measurements(i).acc /\ Location_seg_set(Fields(i), 10))
                  => StoredFrom(heap'[1].height, At(Fields(i), 10), Measurements(i).t)
             /\ (Sentences[i].id = GPGGA /\ ~Location_seg_set(Fields(i), 8))
                  => heap'[1].alt = heap[1].alt
             /\ (Sentences[i].id = GPGGA /\ ~Location_seg_set(Fields(i), 10))
                  => heap'[1].height = heap[1].height
             /\ Sentences[i].id # GPGGA
                  => (heap'[1].alt = heap[1].alt /\ heap'[1].height = heap[1].height)]_vars

\* a GGA sentence older than the stored position replaced altitude and height
C18_Witness ==
    /\ call > 0
    /\ Sentences[call].id = GPGGA /\ Sentences[call].seg = SegGGA_Earlier
    /\ exc = "None"
    /\ heap[1].lat.time = <<12, 35, 19000>>
    /\ heap[1].alt.time = <<12, 35, 18000>> /\ heap[1].alt.val = 100000
    /\ heap[1].height.time = <<12, 35, 18000>> /\ heap[1].height.val = 40000

\* latitude and longitude are both unset, or both set with the same time tuple
Paired(l) ==
    /\ l.lat.isSet = l.long.isSet
    /\ l.lat.isSet => l.lat.time = l.long.time

\* an accepted GGA, GLL or RMC sentence whose fields all parse; its latitude
\* or longitude field may be empty
AcceptedPosition(i) == Sentences[i].id \in {GPGGA, GPGLL, GPRMC} /\ Measurements(i).acc

\* C19: whenever a Location is valid, its latitude and longitude carry the same
\* time tuple, after any sequence of accepted GGA, GLL and RMC sentences, also
\* of sentences whose latitude or longitude field is empty
C19_SameTimeTuple ==
    [][(Paired(heap[1]) /\ AcceptedPosition(call'))
       => (Location_valid(heap'[1]) => heap'[1].lat.time = heap'[1].long.time)]_vars

\* C19 as amended: the same for accepted GGA, GLL and RMC sentences in each of
\* which the latitude and the longitude field are both given or both empty; the
\* two coordinates then stay unset together or set with one time tuple
C19_SameTimeTupleBothFields ==
    [][(/\ Paired(heap[1])
        /\ AcceptedPosition(call')
        /\ (Len(Measurements(call').lat) = 0) = (Len(Measurements(call').long) = 0))
       => (/\ Paired(heap'[1])
           /\ Location_valid(heap'[1]) => heap'[1].lat.time = heap'[1].long.time)]_vars

\* a newer GLL sentence replaced both coordinates of a valid Location
C19_Witness ==
    /\ call > 0
    /\ Sentences[call].id = GPGLL /\ Sentences[call].seg = SegGLL_Ok
    /\ exc = "None"
    /\ Location_valid(heap[1])
    /\ heap[1].satellites = 8
    /\ heap[1].lat.time = <<12, 35, 20000>> /\ heap[1].long.time = <<12, 35, 20000>>

\* a field that was set stays set; with merged, its time tuple does not decrease
StaysSet(old, new, merged) ==
    old.isSet => (new.isSet /\ (merged => ~TimeLess(new.time, old.time)))

\* C20: within one Location no field returns to unset and valid never goes from
\* true to false: latitude, longitude, speed, course, HDOP, altitude and height,
\* once set, stay set under every later set() call, and the time tuple of each
\* recency-merged field never decreases
C20_NeverUnset ==
    [][/\ StaysSet(heap[1].lat, heap'[1].lat, TRUE)
       /\ StaysSet(heap[1].long, heap'[1].long, TRUE)
       /\ StaysSet(heap[1].speed, heap'[1].speed, TRUE)
       /\ StaysSet(heap[1].course, heap'[1].course, TRUE)
       /\ StaysSet(heap[1].hdop, heap'[1].hdop, TRUE)
       /\ StaysSet(heap[1].alt, heap'[1].alt, FALSE)
       /\ StaysSet(heap[1].height, heap'[1].height, FALSE)
       /\ Location_valid(heap[1]) => Location_valid(heap'[1])]_vars

\* an older GGA sentence was applied to a valid Location and left its position
\* and HDOP in place
C20_Witness ==
    /\ call > 0
    /\ Sentences[call].id = GPGGA /\ Sentences[call].seg = SegGGA_Earlier
    /\ exc = "None"
    /\ Location_valid(heap[1])
    /\ heap[1].hdop.time = <<12, 35, 19000>> /\ heap[1].hdop.val = 900
    /\ heap[1].long.time = <<12, 35, 19000>>

====
